---- MODULE Spec2Model ----
(***************************************************************************)
(* Attendance summary engine of zk-pi-attendance (summary.py over the      *)
(* SQLite stores of db.py, driven by the handlers of app.py).              *)
(*                                                                         *)
(* Units.  A calendar date is its day number in January 2024 (5 is         *)
(* 2024-01-05); a timestamp is date * 86400 + seconds since midnight; an   *)
(* hours value (working_hours, makeup_hours, total_hours) is held in       *)
(* thousandths of an hour, so 8.08 h is 8080.  An optional value is the    *)
(* empty tuple (Python None) or a one-element tuple.                       *)
(*                                                                         *)
(* The device side (zk_sync.py, and the session of app.py) is modelled by  *)
(* the configuration stored in the session, by whether each device is      *)
(* enabled, and by the sequence of calls a handler makes; whether a call   *)
(* to the device or to the database succeeds is chosen by the environment. *)
(***************************************************************************)
EXTENDS Integers, Sequences, FiniteSets, TLC

VARIABLES attendance, makeup_hours, users, response,
          device_config, device_enabled, calls

vars ==
    <<attendance, makeup_hours, users, response,
      device_config, device_enabled, calls>>

\* the session's device configuration, the devices, and the calls the
\* handler in flight has made to a device
device_vars == <<device_config, device_enabled, calls>>

----------------------------------------------------------------------------
(* Bounds of the model *)

NumUsers == 2
FirstDate == 5
NumDates == 3
MaxEvents == 2
MaxBatch == 2
MaxAdjustments == 1
MaxPunches == 4
MaxKeys == 2
MaxRows == 4

----------------------------------------------------------------------------
(* Optional values *)

None == << >>
Some(x) == <<x>>
Val(o) == o[1]

----------------------------------------------------------------------------
(* Dates and times *)

SecondsPerDay == 24 * 3600

T(h, m, s) == h * 3600 + m * 60 + s

At(date, tod) == date * SecondsPerDay + tod

\* pandas .dt.date / datetime.date()
DateOf(ts) == ts \div SecondsPerDay

\* datetime.time()
TimeOf(ts) == ts % SecondsPerDay

\* date.weekday(): 0 = Monday .. 6 = Sunday; 2024-01-01 is a Monday
Weekday(date) == (date - 1) % 7

\* date.strftime("%A")
WeekdayLabel(date) ==
    <<"Monday", "Tuesday", "Wednesday", "Thursday", "Friday", "Saturday",
      "Sunday">>[Weekday(date) + 1]

WORK_START == T(8, 0, 0)
WORK_LUNCH_START == T(12, 0, 0)
WORK_AFTERNOON_START == T(13, 0, 0)
WORK_END == T(17, 0, 0)
LUNCH_BREAK_SECONDS == 3600

----------------------------------------------------------------------------
(* Arithmetic of the Python built-ins the summary uses *)

Min(S) == CHOOSE x \in S : \A y \in S : x <= y
Max(S) == CHOOSE x \in S : \A y \in S : x >= y

Max0(n) == IF n > 0 THEN n ELSE 0

\* int(round(n / d)) for an integer n and d > 0: Python 3 rounds a float to
\* the nearest integer, a half to the even neighbour.  n / d is exact at a
\* half (k + 0.5 is a double), so the float division loses nothing here.
RoundHalfEven(n, d) ==
    LET q == n \div d
        r == n % d
    IN  IF 2 * r < d THEN q
        ELSE IF 2 * r > d THEN q + 1
        ELSE IF q % 2 = 0 THEN q ELSE q + 1

\* The 52 fraction bits of the double nearest to a / b (1 <= a / b < 2), by
\* long division; r is the running remainder, lsb the last bit produced.
\* The result is the sign of (double - a / b): round-to-nearest, ties to even.
RECURSIVE DivBits(_, _, _, _)
DivBits(r, b, i, lsb) ==
    IF i = 0
    THEN IF r = 0 THEN 0
         ELSE IF 2 * r > b THEN 1
         ELSE IF 2 * r < b THEN -1
         ELSE IF lsb = 1 THEN 1 ELSE -1
    ELSE IF 2 * r >= b THEN DivBits(2 * r - b, b, i - 1, 1)
         ELSE DivBits(2 * r, b, i - 1, 0)

RECURSIVE ScaleUp(_, _)
ScaleUp(a, b) == IF a < b THEN ScaleUp(2 * a, b) ELSE a

RECURSIVE ScaleDown(_, _)
ScaleDown(a, b) == IF a >= 2 * b THEN ScaleDown(a, 2 * b) ELSE b

\* Sign of (the IEEE double n / d) - (the rational n / d), for n, d > 0.
FloatCmp(n, d) ==
    LET a == ScaleUp(n, d)
        b == ScaleDown(a, d)
    IN  DivBits(a - b, b, 52, 1)

\* round(n / d, 2), in hundredths.  Python rounds the exact value of the
\* double n / d, so a decimal tie is decided by the side of the tie the
\* double fell on, and by half-even only when the double is the tie itself.
Round2(n, d) ==
    LET q == (100 * n) \div d
        r == (100 * n) % d
    IN  IF 2 * r < d THEN q
        ELSE IF 2 * r > d THEN q + 1
        ELSE LET c == FloatCmp(n, d)
             IN  IF c > 0 THEN q + 1
                 ELSE IF c < 0 THEN q
                 ELSE IF q % 2 = 0 THEN q ELSE q + 1

\* round(max(0, work_seconds) / 3600, 2), in thousandths of an hour
RoundHours(work_seconds) == 10 * Round2(Max0(work_seconds), 3600)

\* round(total_hours, 2) for a sum held in thousandths of an hour
RoundTotal(total) == 10 * Round2(total, 1000)

\* RoundMinutes rounding a half up
RoundMinutes_HalfUp(seconds) == (seconds + 30) \div 60

\* int(round(seconds / 60))
RoundMinutes(seconds) == RoundHalfEven(seconds, 60)

----------------------------------------------------------------------------
(* summary.py: _calculate_metrics *)

EmptyMetrics(user_id, date_value) ==
    [user_id |-> user_id, date |-> date_value, check_in |-> None,
     check_out |-> None, working_hours |-> None, late_mins |-> 0,
     early_leave_mins |-> 0]

\* CheckInCandidate without the afternoon rule of lines 57-59
CheckInCandidate_Earliest(timestamps) == Some(Min(timestamps))

\* lines 54-59: the earliest punch, or the earliest morning punch when the
\* earliest punch is at or after the lunch start
CheckInCandidate(timestamps) ==
    LET first == Min(timestamps)
        am_candidates == {ts \in timestamps : TimeOf(ts) < WORK_LUNCH_START}
    IN  IF TimeOf(first) >= WORK_LUNCH_START
        THEN IF am_candidates # {} THEN Some(Min(am_candidates)) ELSE None
        ELSE Some(first)

\* CheckOutCandidate that looks for the check-out among the punches at or
\* after the afternoon start only
CheckOutCandidate_Afternoon(timestamps) ==
    LET pm_candidates ==
            {ts \in timestamps : TimeOf(ts) >= WORK_AFTERNOON_START}
    IN  IF pm_candidates # {} THEN Some(Max(pm_candidates)) ELSE None

\* CheckOutCandidate without the morning rule of lines 61-63
CheckOutCandidate_Latest(timestamps) == Some(Max(timestamps))

\* lines 55-63: the latest punch, or the latest afternoon punch when the
\* latest punch is before the lunch start
CheckOutCandidate(timestamps) ==
    LET last == Max(timestamps)
        pm_candidates ==
            {ts \in timestamps : TimeOf(ts) >= WORK_AFTERNOON_START}
    IN  IF TimeOf(last) < WORK_LUNCH_START
        THEN IF pm_candidates # {} THEN Some(Max(pm_candidates)) ELSE None
        ELSE Some(last)

\* lines 65-66: <<check_in_ts, check_out_ts>> after the swap
Reconcile(timestamps) ==
    LET ci == CheckInCandidate(timestamps)
        co == CheckOutCandidate(timestamps)
    IN  IF ci # None /\ co # None /\ Val(ci) > Val(co)
        THEN <<co, ci>>
        ELSE <<ci, co>>

\* WorkSeconds without the lunch deduction
WorkSeconds_NoLunch(check_in_ts, check_out_ts) == check_out_ts - check_in_ts

\* WorkSeconds deducting the lunch break from a span of 6 hours or more
WorkSeconds_FromSixHours(check_in_ts, check_out_ts) ==
    LET work_seconds == check_out_ts - check_in_ts
    IN  IF /\ TimeOf(check_in_ts) <= WORK_LUNCH_START
           /\ TimeOf(check_out_ts) >= WORK_AFTERNOON_START
           /\ work_seconds >= 6 * 3600
        THEN work_seconds - LUNCH_BREAK_SECONDS
        ELSE work_seconds

\* lines 70-76: the seconds worked, lunch break deducted
WorkSeconds(check_in_ts, check_out_ts) ==
    LET work_seconds == check_out_ts - check_in_ts
    IN  IF /\ TimeOf(check_in_ts) <= WORK_LUNCH_START
           /\ TimeOf(check_out_ts) >= WORK_AFTERNOON_START
           /\ work_seconds > 6 * 3600
        THEN work_seconds - LUNCH_BREAK_SECONDS
        ELSE work_seconds

\* lines 68-77
WorkHours(ci, co) ==
    IF ci # None /\ co # None /\ Val(co) > Val(ci)
    THEN Some(RoundHours(WorkSeconds(Val(ci), Val(co))))
    ELSE None

\* lines 82-86
LateMinutes(date_value, ci) ==
    IF ci # None
    THEN Max0(RoundMinutes(Val(ci) - At(date_value, WORK_START)))
    ELSE 0

\* lines 87-91
EarlyLeaveMinutes(date_value, co) ==
    IF co # None
    THEN Max0(RoundMinutes(At(date_value, WORK_END) - Val(co)))
    ELSE 0

_calculate_metrics(user_id, date_value, timestamps) ==
    IF timestamps = {}
    THEN EmptyMetrics(user_id, date_value)
    ELSE LET io == Reconcile(timestamps)
         IN  [user_id |-> user_id, date |-> date_value,
              check_in |-> io[1], check_out |-> io[2],
              working_hours |-> WorkHours(io[1], io[2]),
              late_mins |-> LateMinutes(date_value, io[1]),
              early_leave_mins |-> EarlyLeaveMinutes(date_value, io[2])]

----------------------------------------------------------------------------
(* db.py: the three stores.  attendance holds rows [user_id, timestamp,    *)
(* status], makeup_hours rows [user_id, date, hours, note], users rows     *)
(* [user_id, name, department].                                            *)

Matches(user_id, start_date, end_date, row_user, row_date) ==
    /\ user_id = None \/ row_user = Val(user_id)
    /\ start_date = None \/ row_date >= Val(start_date)
    /\ end_date = None \/ row_date <= Val(end_date)

fetch_attendance_rows(att, user_id, start_date, end_date) ==
    {e \in att :
        Matches(user_id, start_date, end_date, e.user_id, DateOf(e.timestamp))}

\* the mapping (user_id, date) -> {hours, note}
fetch_makeup_hours(mk, user_id, start_date, end_date) ==
    LET rows == {m \in mk :
                    Matches(user_id, start_date, end_date, m.user_id, m.date)}
    IN  [k \in {<<m.user_id, m.date>> : m \in rows} |->
            LET m == CHOOSE m \in rows : m.user_id = k[1] /\ m.date = k[2]
            IN  [hours |-> m.hours, note |-> m.note]]

\* an upsert that keeps the stored note when the new one is null
set_makeup_hours_KeepNote(mk, user_id, date, hours, note) ==
    LET old == {m \in mk : m.user_id = user_id /\ m.date = date}
        kept == IF note = None /\ old # {}
                THEN (CHOOSE m \in old : TRUE).note ELSE note
    IN  (mk \ old)
            \cup {[user_id |-> user_id, date |-> date, hours |-> hours,
                   note |-> kept]}

\* INSERT ... ON CONFLICT(user_id, date) DO UPDATE
set_makeup_hours(mk, user_id, date, hours, note) ==
    {m \in mk : ~(m.user_id = user_id /\ m.date = date)}
        \cup {[user_id |-> user_id, date |-> date, hours |-> hours,
               note |-> note]}

\* an insert that reports the size of its batch
bulk_insert_attendance_CountAll(att, rows) ==
    <<att \cup rows, Cardinality(rows)>>

\* INSERT OR IGNORE under UNIQUE (user_id, timestamp, status):
\* <<the store afterwards, the number of rows inserted>>
bulk_insert_attendance(att, rows) ==
    <<att \cup rows, Cardinality(rows \ att)>>

\* INSERT OR IGNORE, then COALESCE(?, name), COALESCE(?, department) when
\* a name or a department is given
upsert_user(usr, user_id, name, department) ==
    LET found == {u \in usr : u.user_id = user_id}
        inserted ==
            IF found # {} THEN usr
            ELSE usr \cup {[user_id |-> user_id, name |-> name,
                            department |-> department]}
    IN  IF name # None \/ department # None
        THEN {IF u.user_id = user_id
              THEN [user_id |-> user_id,
                    name |-> IF name # None THEN name ELSE u.name,
                    department |-> IF department # None THEN department
                                   ELSE u.department]
              ELSE u : u \in inserted}
        ELSE inserted

\* the row of user_id, or None
get_user(usr, user_id) ==
    LET found == {u \in usr : u.user_id = user_id}
    IN  IF found # {} THEN Some(CHOOSE u \in found : TRUE) ELSE None

\* <<attendance, makeup_hours, users>> without the rows of user_id
delete_user(att, mk, usr, user_id) ==
    <<{e \in att : e.user_id # user_id},
      {m \in mk : m.user_id # user_id},
      {u \in usr : u.user_id # user_id}>>

----------------------------------------------------------------------------
(* summary.py: get_daily_summary *)

RECURSIVE SortedSeq(_)
SortedSeq(S) ==
    IF S = {} THEN << >>
    ELSE LET m == Min(S) IN <<m>> \o SortedSeq(S \ {m})

\* DateIndex leaving the end date out
DateIndex_ExclusiveEnd(start_date, end_date) ==
    IF start_date # None /\ end_date # None
    THEN Val(start_date) .. (Val(end_date) - 1)
    ELSE {}

\* lines 129-132: pd.date_range(start, end, inclusive="both")
DateIndex(start_date, end_date) ==
    IF start_date # None /\ end_date # None
    THEN Val(start_date) .. Val(end_date)
    ELSE {}

\* TotalHours without the make-up hours
TotalHours_WorkedOnly(working_hours, makeup) ==
    IF working_hours # None /\ Val(working_hours) # 0
    THEN Some(RoundTotal(Val(working_hours)))
    ELSE None

\* TotalHours testing the sum against None instead of its truth value
TotalHours_NeverNull(working_hours, makeup) ==
    Some(RoundTotal((IF working_hours # None THEN Val(working_hours) ELSE 0)
                    + makeup))

\* lines 189-190
TotalHours(working_hours, makeup) ==
    LET total_hours ==
            (IF working_hours # None THEN Val(working_hours) ELSE 0) + makeup
    IN  IF total_hours # 0 THEN Some(RoundTotal(total_hours)) ELSE None

\* WeekendNote on both weekend days
WeekendNote_AnyWeekend(weekday, is_day_off) ==
    IF weekday >= 5 /\ ~is_day_off THEN Some("Worked on Saturday") ELSE None

\* lines 203-206
WeekendNote(weekday, is_day_off) ==
    IF weekday = 5 /\ ~is_day_off THEN Some("Worked on Saturday") ELSE None

\* lines 201-202
IsWeekend(weekday) == weekday >= 5

\* a lookup that finds no employee
users_lookup_Missing(usr, user_id) == None

\* lines 126-127, 208: users_lookup.get(user_id) over fetch_users()
users_lookup(usr, user_id) ==
    LET found == {u \in usr : u.user_id = user_id}
    IN  IF found # {} THEN Some(CHOOSE u \in found : TRUE) ELSE None

\* lines 180-210: the fields added to a row of summary_map
BuildRow(metrics, makeup_lookup, usr) ==
    LET makeup_key == <<metrics.user_id, metrics.date>>
        has_makeup == makeup_key \in DOMAIN makeup_lookup
        makeup == IF has_makeup THEN makeup_lookup[makeup_key].hours ELSE 0
        note == IF has_makeup THEN makeup_lookup[makeup_key].note ELSE None
        missing_check_in == metrics.check_in = None
        missing_check_out == metrics.check_out = None
        is_day_off == missing_check_in /\ missing_check_out
        weekday == Weekday(metrics.date)
        user_meta == users_lookup(usr, metrics.user_id)
    IN  [user_id |-> metrics.user_id,
         date |-> metrics.date,
         check_in |-> metrics.check_in,
         check_out |-> metrics.check_out,
         working_hours |-> metrics.working_hours,
         late_mins |-> metrics.late_mins,
         early_leave_mins |-> metrics.early_leave_mins,
         makeup_hours |-> makeup,
         makeup_note |-> note,
         total_hours |-> TotalHours(metrics.working_hours, makeup),
         missing_check_in |-> missing_check_in,
         missing_check_out |-> missing_check_out,
         is_day_off |-> is_day_off,
         weekday |-> weekday,
         weekday_label |-> WeekdayLabel(metrics.date),
         is_weekend |-> IsWeekend(weekday),
         worked_on_weekend |-> IsWeekend(weekday) /\ ~is_day_off,
         weekend_note |-> WeekendNote(weekday, is_day_off),
         name |-> IF user_meta # None THEN Val(user_meta).name ELSE None,
         department |->
            IF user_meta # None THEN Val(user_meta).department ELSE None]

\* lines 155-157
ActiveUsers(keys, user_id) ==
    LET active_users == {k[1] : k \in keys}
    IN  IF user_id # None THEN active_users \cap {Val(user_id)}
        ELSE active_users

\* lines 159-173: the keys of summary_map after the placeholder rows
DenseFill(keys, active_users, date_index) ==
    IF date_index # {} /\ active_users # {}
    THEN keys \cup (active_users \X date_index)
    ELSE keys

\* OrderKeys walking the users and dates without sorted()
OrderKeys_Unsorted(keys, active_users) ==
    LET RECURSIVE Walk(_)
        Walk(ks) ==
            IF ks = {} THEN << >>
            ELSE LET k == CHOOSE x \in ks :
                            \A y \in ks : x[1] > y[1] \/ (x[1] = y[1] /\ x[2] >= y[2])
                 IN  <<k>> \o Walk(ks \ {k})
    IN  Walk({k \in keys : k[1] \in active_users})

\* lines 176-178: the keys in output order
OrderKeys(keys, active_users) ==
    LET RECURSIVE PerUser(_)
        PerUser(us) ==
            IF us = << >> THEN << >>
            ELSE LET user == Head(us)
                     user_dates ==
                        SortedSeq({k[2] : k \in {x \in keys : x[1] = user}})
                 IN  [i \in 1 .. Len(user_dates) |-> <<user, user_dates[i]>>]
                        \o PerUser(Tail(us))
    IN  PerUser(SortedSeq(active_users))

\* FilterActive keeping every row
FilterActive_KeepAll(summary_rows) == summary_rows

\* lines 214-222
FilterActive(summary_rows) ==
    LET user_activity(user) ==
            \E i \in 1 .. Len(summary_rows) :
                /\ summary_rows[i].user_id = user
                /\ ~summary_rows[i].is_day_off \/ summary_rows[i].makeup_hours > 0
        Keep(row) == user_activity(row.user_id)
    IN  SelectSeq(summary_rows, Keep)

\* lines 110-212: summary_rows, the rows of every active user before the
\* activity filter
SummaryRows(att, mk, usr, user_id, start_date, end_date) ==
    LET rows == fetch_attendance_rows(att, user_id, start_date, end_date)
        grouped == {<<e.user_id, DateOf(e.timestamp)>> : e \in rows}
        Group(k) ==
            {e.timestamp : e \in {x \in rows :
                x.user_id = k[1] /\ DateOf(x.timestamp) = k[2]}}
        makeup_lookup == fetch_makeup_hours(mk, user_id, start_date, end_date)
        keys == grouped \cup DOMAIN makeup_lookup
        active_users == ActiveUsers(keys, user_id)
        filled == DenseFill(keys, active_users,
                            DateIndex(start_date, end_date))
        summary_map ==
            [k \in filled |->
                IF k \in grouped
                THEN _calculate_metrics(k[1], k[2], Group(k))
                ELSE EmptyMetrics(k[1], k[2])]
        order == OrderKeys(filled, active_users)
    IN  IF keys = {} THEN << >>
        ELSE [i \in 1 .. Len(order) |->
                BuildRow(summary_map[order[i]], makeup_lookup, usr)]

get_daily_summary(att, mk, usr, user_id, start_date, end_date) ==
    FilterActive(SummaryRows(att, mk, usr, user_id, start_date, end_date))

----------------------------------------------------------------------------
(* Inputs *)

Users == 1 .. NumUsers
Dates == FirstDate .. (FirstDate + NumDates - 1)

\* times of day of the punches the device delivers
EventTimes == {T(8, 5, 0), T(11, 59, 59), T(12, 0, 0)}
StatusCodes == {0}

EventPool ==
    {[user_id |-> u, timestamp |-> At(d, t), status |-> st] :
        u \in Users, d \in Dates, t \in EventTimes, st \in StatusCodes}

\* hours of a POST /makeup payload, in thousandths of an hour; none of them
\* is a decimal tie of round(_, 2)
MakeupHoursPool == {0, 4, 4000}
NegativeHours == 0 - 500
NotePool == {None, Some("overtime")}

OptUsers == {None} \cup {Some(u) : u \in Users}
OptDates == {None} \cup {Some(d) : d \in Dates}

RECURSIVE SubsetsUpTo(_, _)
SubsetsUpTo(S, k) ==
    IF k = 0 THEN {{}}
    ELSE LET smaller == SubsetsUpTo(S, k - 1)
         IN  smaller \cup {g \cup {x} : g \in smaller, x \in S}

----------------------------------------------------------------------------
(* app.py: the request handlers.  response is the response in flight: a    *)
(* handler runs when none is, and Deliver hands it to the client.          *)

NoRequest == [user_id |-> None, start_date |-> None, end_date |-> None]

Idle ==
    [kind |-> "idle", status |-> 0, request |-> NoRequest, rows |-> << >>,
     inserted |-> 0]

\* addresses of the devices a client can name
Hosts == {"10.0.0.1", "10.0.0.2"}

\* no configuration in the session, every device enabled, no call made
NoDevice ==
    /\ device_config = None
    /\ device_enabled = [h \in Hosts |-> TRUE]
    /\ calls = << >>

Init ==
    /\ attendance = {}
    /\ makeup_hours = {}
    /\ users = {}
    /\ response = Idle
    /\ NoDevice

\* GET /summary that saved its placeholder rows as zero-hour adjustments
Summary_Persisting(user_id, start_date, end_date) ==
    LET rows == get_daily_summary(attendance, makeup_hours, users,
                                  user_id, start_date, end_date)
        keyed == {<<m.user_id, m.date>> : m \in makeup_hours}
    IN  /\ response = Idle
        /\ response' =
            [kind |-> "summary", status |-> 200,
             request |-> [user_id |-> user_id, start_date |-> start_date,
                          end_date |-> end_date],
             rows |-> rows, inserted |-> 0]
        /\ makeup_hours' = makeup_hours \cup
            {[user_id |-> rows[i].user_id, date |-> rows[i].date,
              hours |-> 0, note |-> None] :
                i \in {j \in DOMAIN rows :
                           <<rows[j].user_id, rows[j].date>> \notin keyed}}
        /\ UNCHANGED <<attendance, users>>
        /\ UNCHANGED device_vars

\* GET /summary, GET /summary/<user_id> (lines 132-145)
Summary(user_id, start_date, end_date) ==
    /\ response = Idle
    /\ response' =
        [kind |-> "summary", status |-> 200,
         request |-> [user_id |-> user_id, start_date |-> start_date,
                      end_date |-> end_date],
         rows |-> get_daily_summary(attendance, makeup_hours, users,
                                    user_id, start_date, end_date),
         inserted |-> 0]
    /\ UNCHANGED <<attendance, makeup_hours, users>>
    /\ UNCHANGED device_vars

\* the 400 answers of POST /makeup
BadRequest(user_id, date_value) ==
    [kind |-> "makeup", status |-> 400,
     request |-> [user_id |-> user_id, start_date |-> date_value,
                  end_date |-> date_value],
     rows |-> << >>, inserted |-> 0]

\* the checks of POST /makeup (lines 203-215); hours = None is a value
\* float() rejects, user_id = None one that int() rejects
Rejected_NoSign(user_id, hours, date_value) ==
    user_id = None \/ hours = None \/ date_value = None

Rejected(user_id, hours, date_value) ==
    \/ user_id = None \/ hours = None
    \/ date_value = None
    \/ Val(hours) < 0

\* POST /makeup (lines 200-229) on a store that holds up to limit
\* adjustments
MakeupWithin(limit, user_id, hours, date_value, note) ==
    /\ response = Idle
    /\ IF Rejected(user_id, hours, date_value)
       THEN /\ response' = BadRequest(user_id, date_value)
            /\ UNCHANGED makeup_hours
       ELSE LET stored == set_makeup_hours(makeup_hours, Val(user_id),
                                           Val(date_value), Val(hours), note)
                summary_row == get_daily_summary(attendance, stored, users,
                                                 user_id, date_value,
                                                 date_value)
            IN  /\ Cardinality(stored) <= limit
                /\ makeup_hours' = stored
                /\ response' =
                    [kind |-> "makeup", status |-> 200,
                     request |-> [user_id |-> user_id,
                                  start_date |-> date_value,
                                  end_date |-> date_value],
                     rows |-> IF summary_row # << >>
                              THEN <<summary_row[1]>> ELSE << >>,
                     inserted |-> 0]
    /\ UNCHANGED <<attendance, users>>
    /\ UNCHANGED device_vars

Makeup(user_id, hours, date_value, note) ==
    MakeupWithin(MaxAdjustments, user_id, hours, date_value, note)

\* sync_attendance's write (zk_sync.py lines 163-170): the rows read from
\* the device go to bulk_insert_attendance, on a store of up to limit rows
SyncInsertUpTo(limit, rows) ==
    /\ response = Idle
    /\ LET res == bulk_insert_attendance(attendance, rows)
       IN  /\ Cardinality(res[1]) <= limit
           /\ attendance' = res[1]
           /\ response' =
                [kind |-> "sync", status |-> 200, request |-> NoRequest,
                 rows |-> << >>, inserted |-> res[2]]
    /\ UNCHANGED <<makeup_hours, users>>
    /\ UNCHANGED device_vars

SyncInsert(rows) == SyncInsertUpTo(MaxEvents, rows)

\* the answers of the /api/users handlers
UserResponse(status, user_id) ==
    [kind |-> "user", status |-> status,
     request |-> [user_id |-> user_id, start_date |-> None,
                  end_date |-> None],
     rows |-> << >>, inserted |-> 0]

\* POST /api/users (lines 231-247); user_id = None is a value int() rejects
CreateUser(user_id, name, department) ==
    /\ response = Idle
    /\ IF user_id = None
       THEN /\ response' = UserResponse(400, user_id)
            /\ UNCHANGED users
       ELSE IF get_user(users, Val(user_id)) # None
       THEN /\ response' = UserResponse(409, user_id)
            /\ UNCHANGED users
       ELSE /\ users' = upsert_user(users, Val(user_id), name, department)
            /\ response' = UserResponse(201, user_id)
    /\ UNCHANGED <<attendance, makeup_hours>>
    /\ UNCHANGED device_vars

\* PUT /api/users/<user_id> (lines 249-260)
UpdateUser(user_id, name, department) ==
    /\ response = Idle
    /\ IF get_user(users, user_id) = None
       THEN /\ response' = UserResponse(404, Some(user_id))
            /\ UNCHANGED users
       ELSE /\ users' = upsert_user(users, user_id, name, department)
            /\ response' = UserResponse(200, Some(user_id))
    /\ UNCHANGED <<attendance, makeup_hours>>
    /\ UNCHANGED device_vars

\* DELETE /api/users/<user_id> (lines 262-268)
RemoveUser(user_id) ==
    /\ response = Idle
    /\ IF get_user(users, user_id) = None
       THEN /\ response' = UserResponse(404, Some(user_id))
            /\ UNCHANGED <<attendance, makeup_hours, users>>
       ELSE LET left == delete_user(attendance, makeup_hours, users, user_id)
            IN  /\ attendance' = left[1]
                /\ makeup_hours' = left[2]
                /\ users' = left[3]
                /\ response' = UserResponse(200, Some(user_id))
    /\ UNCHANGED device_vars

Deliver ==
    /\ response # Idle
    /\ response' = Idle
    /\ calls' = << >>
    /\ UNCHANGED <<attendance, makeup_hours, users, device_config,
                   device_enabled>>

Next ==
    \/ \E u \in OptUsers, s \in OptDates, e \in OptDates : Summary(u, s, e)
    \/ \E u \in OptUsers, h \in {None} \cup {Some(x) : x \in MakeupHoursPool \cup {NegativeHours}},
          d \in OptDates, n \in NotePool : Makeup(u, h, d, n)
    \/ \E rows \in SubsetsUpTo(EventPool, MaxBatch) \ {{}} : SyncInsert(rows)
    \/ Deliver

Spec == Init /\ [][Next]_vars

----------------------------------------------------------------------------
(* One employee's day: the store holds the punches of employee 1 on the    *)
(* first date, drawn from TimePool, and the summary is read.               *)

TimePool ==
    {T(7, 59, 30), T(8, 0, 0), T(8, 0, 30), T(8, 1, 30), T(8, 5, 0),
     T(9, 0, 0), T(9, 30, 0), T(11, 59, 59), T(12, 0, 0), T(12, 2, 0),
     T(12, 30, 0), T(12, 59, 59), T(13, 0, 0), T(13, 1, 0), T(14, 0, 0),
     T(14, 0, 1), T(16, 58, 30), T(16, 59, 30), T(17, 0, 0), T(17, 0, 18),
     T(17, 10, 0)}

DayEvents(times) ==
    {[user_id |-> 1, timestamp |-> At(FirstDate, t), status |-> 0] :
        t \in times}

InitDay ==
    /\ attendance \in {DayEvents(g) : g \in SubsetsUpTo(TimePool, MaxPunches)}
    /\ makeup_hours = {}
    /\ users = {}
    /\ response = Idle
    /\ NoDevice

NextDay ==
    \/ Summary(None, None, None)
    \/ Summary(Some(1), Some(FirstDate), Some(FirstDate + NumDates - 1))
    \/ Deliver

SpecDay == InitDay /\ [][NextDay]_vars

----------------------------------------------------------------------------
(* POST /makeup from its JSON payload: the adjustments store under the     *)
(* requests a client can send, with up to MaxKeys adjustments.             *)

\* a JSON value of the payload; milli is a number in thousandths, and a
\* "numeric string" spells that number in its shortest form ("2", "1.7")
JsonNull == [type |-> "null", milli |-> 0]
JsonNumber(milli) == [type |-> "number", milli |-> milli]
JsonNumeric(milli) == [type |-> "numeric string", milli |-> milli]
JsonText == [type |-> "text", milli |-> 0]

\* Python int(): a number is truncated towards zero, a string must spell
\* an integer, null and other strings raise
int(v) ==
    CASE v.type = "number" ->
            Some(IF v.milli >= 0 THEN v.milli \div 1000
                 ELSE 0 - ((0 - v.milli) \div 1000))
      [] v.type = "numeric string" ->
            IF v.milli % 1000 = 0 THEN Some(v.milli \div 1000) ELSE None
      [] OTHER -> None

\* Python float(): a number or a string that spells one, in thousandths
float(v) ==
    IF v.type \in {"number", "numeric string"} THEN Some(v.milli) ELSE None

UserIdValues ==
    {JsonNumber(1000 * u) : u \in Users}
        \cup {JsonNumber(1700), JsonNumeric(2000), JsonNumeric(1700),
              JsonNull, JsonText}

HoursValues ==
    {JsonNumber(h) : h \in MakeupHoursPool \cup {NegativeHours}}
        \cup {JsonNumeric(4000), JsonNull, JsonText}

MakeupPayloads ==
    [user_id : UserIdValues, hours : HoursValues, date : OptDates,
     note : NotePool]

\* lines 202-210: the payload's fields, converted
PostMakeup(limit, payload) ==
    MakeupWithin(limit, int(payload.user_id), float(payload.hours),
                 payload.date, payload.note)

NextMakeup ==
    \/ \E payload \in MakeupPayloads : PostMakeup(MaxKeys, payload)
    \/ Deliver

SpecMakeup == Init /\ [][NextMakeup]_vars

----------------------------------------------------------------------------
(* Repeated syncs: batches of punches that differ in employee, time or     *)
(* status reach the attendance store, which holds up to MaxRows rows.      *)

InsertPool ==
    {[user_id |-> u, timestamp |-> At(FirstDate, t), status |-> st] :
        u \in Users, t \in {T(8, 5, 0), T(12, 0, 0)}, st \in {0, 1}}

InsertBatches == SubsetsUpTo(InsertPool, MaxBatch) \ {{}}

NextInsert ==
    \/ \E rows \in InsertBatches : SyncInsertUpTo(MaxRows, rows)
    \/ Deliver

SpecInsert == Init /\ [][NextInsert]_vars

----------------------------------------------------------------------------
(* The employee directory: employees are created, renamed and removed      *)
(* while events and adjustments of known and unknown employees are stored  *)
(* and summaries are read.                                                 *)

NamePool == {None, Some("Ann"), Some("Bob")}
DepartmentPool == {None, Some("Ops")}

DirectoryEvents ==
    {[user_id |-> u, timestamp |-> At(FirstDate, T(8, 5, 0)), status |-> 0] :
        u \in Users}

NextDirectory ==
    \/ \E u \in OptUsers, n \in NamePool, dp \in DepartmentPool :
            CreateUser(u, n, dp)
    \/ \E u \in Users, n \in NamePool, dp \in DepartmentPool :
            UpdateUser(u, n, dp)
    \/ \E u \in Users : RemoveUser(u)
    \/ \E e \in DirectoryEvents : SyncInsert({e})
    \/ \E u \in Users, h \in {0, 4000} :
            Makeup(Some(u), Some(h), Some(FirstDate + 1), None)
    \/ \E u \in OptUsers, s \in {None, Some(FirstDate)},
          e \in {None, Some(FirstDate + 1)} : Summary(u, s, e)
    \/ Deliver

SpecDirectory == Init /\ [][NextDirectory]_vars

----------------------------------------------------------------------------
(* zk_sync.py and the device handlers of app.py.  Each call to a device,   *)
(* and the insert of a sync, succeeds or raises as the environment         *)
(* chooses: the outcome record of a handler names the result of each call. *)

\* a call made while a request is handled, and whether it returned
Call(name, ok) == [call |-> name, ok |-> ok]

\* the users a device reports; user_id = None is one int() rejects
DeviceUsers ==
    {[user_id |-> Some(1), name |-> Some("Ann"), department |-> None],
     [user_id |-> None, name |-> Some("Eve"), department |-> None]}

\* the punches a device reports
DeviceEntries ==
    {[user_id |-> u, timestamp |-> At(FirstDate, T(8, 5, 0)), status |-> 0] :
        u \in Users}

\* results of the calls of sync_attendance
SyncOutcomes ==
    [connect : BOOLEAN, disable_device : BOOLEAN, get_users : BOOLEAN,
     get_attendance : BOOLEAN, bulk_insert_attendance : BOOLEAN,
     enable_device : BOOLEAN, disconnect : BOOLEAN]

\* results of the calls of test_connection
TestOutcomes ==
    [connect : BOOLEAN, get_firmware_version : BOOLEAN,
     get_serialnumber : BOOLEAN, disconnect : BOOLEAN]

\* _sync_users (lines 50-63) once get_users has returned: every user with a
\* readable id is upserted, the others are skipped
RECURSIVE _sync_users(_, _)
_sync_users(usr, device_users) ==
    IF device_users = {} THEN usr
    ELSE LET user == CHOOSE x \in device_users : TRUE
             rest == _sync_users(usr, device_users \ {user})
         IN  IF user.user_id = None THEN rest
             ELSE upsert_user(rest, Val(user.user_id), user.name,
                              user.department)

\* a finally block that only disconnects
Cleanup_DisconnectOnly(o) == <<Call("disconnect", o.disconnect)>>

\* the finally block of sync_attendance (lines 173-178) for a connection
\* that was established: a failing enable_device skips disconnect, and
\* whatever is raised here is dropped
Cleanup(o) ==
    <<Call("enable_device", o.enable_device)>>
        \o (IF o.enable_device THEN <<Call("disconnect", o.disconnect)>>
            ELSE << >>)

\* the device is enabled after the calls made, having been so before or not
EnabledAfter(enabled, made) ==
    LET last(name) ==
            IF \E i \in DOMAIN made : made[i] = Call(name, TRUE)
            THEN Max({i \in DOMAIN made : made[i] = Call(name, TRUE)}) ELSE 0
    IN  IF last("enable_device") = 0 /\ last("disable_device") = 0
        THEN enabled
        ELSE last("enable_device") > last("disable_device")

\* sync_attendance (lines 139-178) on the stores att and usr, with the
\* device reporting device_users and entries: the calls made, whether
\* SyncError is raised, the stores and the device afterwards
sync_attendance(att, usr, enabled, o, device_users, entries) ==
    IF ~o.connect
    THEN [calls |-> <<Call("connect", FALSE)>>, error |-> TRUE,
          attendance |-> att, users |-> usr, enabled |-> enabled,
          inserted |-> 0]
    ELSE LET opened ==
                <<Call("connect", TRUE),
                  Call("disable_device", o.disable_device)>>
             read ==
                opened \o <<Call("get_users", o.get_users),
                            Call("get_attendance", o.get_attendance)>>
             written ==
                read \o <<Call("bulk_insert_attendance",
                               o.bulk_insert_attendance)>>
             synced == IF o.get_users THEN _sync_users(usr, device_users)
                       ELSE usr
             res == bulk_insert_attendance(att, entries)
             body ==
                IF ~o.disable_device
                THEN [calls |-> opened, error |-> TRUE, attendance |-> att,
                      users |-> usr, inserted |-> 0]
                ELSE IF ~o.get_attendance
                THEN [calls |-> read, error |-> TRUE, attendance |-> att,
                      users |-> synced, inserted |-> 0]
                ELSE IF ~o.bulk_insert_attendance
                THEN [calls |-> written, error |-> TRUE, attendance |-> att,
                      users |-> synced, inserted |-> 0]
                ELSE [calls |-> written, error |-> FALSE,
                      attendance |-> res[1], users |-> synced,
                      inserted |-> res[2]]
             made == body.calls \o Cleanup(o)
         IN  [calls |-> made, error |-> body.error,
              attendance |-> body.attendance, users |-> body.users,
              enabled |-> EnabledAfter(enabled, made),
              inserted |-> body.inserted]

\* test_connection (lines 93-136): the calls made and whether SyncError is
\* raised; an unreadable firmware version or serial number is "Unknown"
test_connection(o) ==
    IF ~o.connect
    THEN [calls |-> <<Call("connect", FALSE)>>, error |-> TRUE]
    ELSE [calls |->
            <<Call("connect", TRUE),
              Call("get_firmware_version", o.get_firmware_version),
              Call("get_serialnumber", o.get_serialnumber),
              Call("disconnect", o.disconnect)>>,
          error |-> FALSE]

\* a configuration read from the session that falls back to a default
\* device when none is stored
_get_session_device_config_Default(config) ==
    IF config = None
    THEN Some([host |-> "10.0.0.1", port |-> 4370, password |-> 0])
    ELSE config

\* lines 48-63: the stored configuration, if it names a host
_get_session_device_config(config) ==
    IF config = None THEN None
    ELSE IF Val(config).host = "" THEN None
    ELSE config

\* the answers of the device handlers
DeviceResponse(kind, status, inserted) ==
    [kind |-> kind, status |-> status, request |-> NoRequest,
     rows |-> << >>, inserted |-> inserted]

\* payloads of POST /api/device/connect: host is the stripped field ("" when
\* it is missing or blank); port and password are None when int() rejects
\* them
ConnectPayloads ==
    [host : Hosts \cup {""}, port : {None, Some(4370)},
     password : {None, Some(0)}]

\* POST /api/device/connect (lines 359-396); an unconvertible password
\* raises ValueError out of the handler, which Flask answers with 500
Connect(payload, o) ==
    /\ response = Idle
    /\ IF payload.host = "" \/ payload.port = None
       THEN /\ response' = DeviceResponse("connect", 400, 0)
            /\ calls' = << >>
            /\ UNCHANGED device_config
       ELSE IF payload.password = None
       THEN /\ response' = DeviceResponse("connect", 500, 0)
            /\ calls' = << >>
            /\ UNCHANGED device_config
       ELSE LET tested == test_connection(o)
            IN  /\ calls' = tested.calls
                /\ IF tested.error
                   THEN /\ response' = DeviceResponse("connect", 400, 0)
                        /\ UNCHANGED device_config
                   ELSE /\ response' = DeviceResponse("connect", 200, 0)
                        /\ device_config' =
                            Some([host |-> payload.host,
                                  port |-> Val(payload.port),
                                  password |-> Val(payload.password)])
    /\ UNCHANGED <<attendance, makeup_hours, users, device_enabled>>

\* POST /api/device/disconnect (lines 398-401)
Disconnect ==
    /\ response = Idle
    /\ device_config' = None
    /\ response' = DeviceResponse("disconnect", 200, 0)
    /\ calls' = << >>
    /\ UNCHANGED <<attendance, makeup_hours, users, device_enabled>>

\* GET /sync (lines 112-130)
Sync(o, device_users, entries) ==
    /\ response = Idle
    /\ LET config == _get_session_device_config(device_config)
       IN  IF config = None
           THEN /\ response' = DeviceResponse("sync", 412, 0)
                /\ calls' = << >>
                /\ UNCHANGED <<attendance, users, device_enabled>>
           ELSE LET host == Val(config).host
                    res == sync_attendance(attendance, users,
                                           device_enabled[host], o,
                                           device_users, entries)
                IN  /\ attendance' = res.attendance
                    /\ users' = res.users
                    /\ device_enabled' =
                        [device_enabled EXCEPT ![host] = res.enabled]
                    /\ calls' = res.calls
                    /\ response' =
                        DeviceResponse("sync",
                                       IF res.error THEN 500 ELSE 200,
                                       res.inserted)
    /\ UNCHANGED <<makeup_hours, device_config>>

NextSession ==
    \/ \E payload \in ConnectPayloads, o \in TestOutcomes :
            Connect(payload, o)
    \/ Disconnect
    \/ \E o \in SyncOutcomes, entries \in SUBSET DeviceEntries :
            Sync(o, DeviceUsers, entries)
    \/ Deliver

SpecSession == Init /\ [][NextSession]_vars

----------------------------------------------------------------------------
(* One employee's day next to make-up adjustments: the day of SpecDay,     *)
(* with an adjustment stored for a day without punches or for an employee  *)
(* without punches.                                                        *)

NextDayMakeup ==
    \/ \E u \in OptUsers :
            Summary(u, Some(FirstDate), Some(FirstDate + NumDates - 1))
    \/ Summary(None, None, None)
    \/ \E u \in Users :
            Makeup(Some(u), Some(4000), Some(FirstDate + 1), None)
    \/ Deliver

SpecDayMakeup == InitDay /\ [][NextDayMakeup]_vars

----------------------------------------------------------------------------
(* Properties of one day's metrics, checked under SpecDay *)

\* the rows of the summary in flight
Rows == IF response.kind = "summary" THEN response.rows ELSE << >>

RowSet == {Rows[i] : i \in 1 .. Len(Rows)}

\* the stored punches of an employee on a date
Punches(user_id, date) ==
    {e.timestamp : e \in {x \in attendance :
        x.user_id = user_id /\ DateOf(x.timestamp) = date}}

C1_Punches == DayEvents({T(8, 5, 0), T(12, 2, 0), T(13, 1, 0), T(17, 10, 0)})

C1_Row(r, hours) ==
    /\ r.check_in = Some(At(FirstDate, T(8, 5, 0)))
    /\ r.check_out = Some(At(FirstDate, T(17, 10, 0)))
    /\ r.working_hours = Some(hours)
    /\ r.late_mins = 5
    /\ r.early_leave_mins = 0

\* C1 as stated: punches at 08:05, 12:02, 13:01 and 17:10 give check_in
\* 08:05, check_out 17:10, worked_hours 7.08, late_minutes 5 and
\* early_leave_minutes 0.
C1_AsStated ==
    attendance = C1_Punches =>
        \A r \in RowSet : r.date = FirstDate => C1_Row(r, 7080)

\* C1 amended: punches at 08:05, 12:02, 13:01 and 17:10 give check_in 08:05,
\* check_out 17:10, the one-hour lunch break deducted from the span of 9h05m,
\* worked_hours 8.08 (8h05m), late_minutes 5 and early_leave_minutes 0.
C1_FourPunchDay ==
    attendance = C1_Punches =>
        \A r \in RowSet : r.date = FirstDate =>
            /\ C1_Row(r, 8080)
            /\ Val(r.check_out) - Val(r.check_in) - LUNCH_BREAK_SECONDS
                = T(8, 5, 0)

C1_Witness ==
    /\ attendance = C1_Punches
    /\ \E r \in RowSet : r.date = FirstDate /\ C1_Row(r, 8080)

\* the value the claim gives for check-in
C2_CheckIn(P) ==
    IF TimeOf(Min(P)) >= T(12, 0, 0)
    THEN LET am == {ts \in P : TimeOf(ts) < T(12, 0, 0)}
         IN  IF am = {} THEN None ELSE Some(Min(am))
    ELSE Some(Min(P))

\* the value the claim gives for check-out
C2_CheckOut(P) ==
    IF TimeOf(Max(P)) < T(12, 0, 0)
    THEN LET pm == {ts \in P : TimeOf(ts) >= T(13, 0, 0)}
         IN  IF pm = {} THEN None ELSE Some(Max(pm))
    ELSE Some(Max(P))

\* C2: for a non-empty set of punches of one employee on one day, check-in
\* is the earliest punch, or the earliest punch before 12:00 (or absent)
\* when the earliest punch is at or after 12:00; check-out is the latest
\* punch, or the latest punch at or after 13:00 (or absent) when the latest
\* punch is before 12:00.  A day whose punches are all before 12:00 has
\* check_in = earliest punch, no check_out, missing_check_out, no
\* worked_hours, and is not a day off.
C2_Reconciliation ==
    \A r \in RowSet :
        LET P == Punches(r.user_id, r.date)
        IN  P # {} =>
                /\ r.check_in = C2_CheckIn(P)
                /\ r.check_out = C2_CheckOut(P)
                /\ (\A ts \in P : TimeOf(ts) < T(12, 0, 0)) =>
                        /\ r.check_in = Some(Min(P))
                        /\ r.check_out = None
                        /\ r.missing_check_out
                        /\ r.working_hours = None
                        /\ ~r.is_day_off

\* a day with punches at 08:00 and 09:30 only
C2_Witness ==
    \E r \in RowSet :
        /\ Punches(r.user_id, r.date)
            = {At(FirstDate, T(8, 0, 0)), At(FirstDate, T(9, 30, 0))}
        /\ r.check_in = Some(At(FirstDate, T(8, 0, 0)))
        /\ r.check_out = None
        /\ r.missing_check_out /\ ~r.is_day_off

\* the worked seconds the claim gives for a check-in and a check-out
C3_Seconds(ci, co) ==
    IF TimeOf(ci) <= T(12, 0, 0) /\ TimeOf(co) >= T(13, 0, 0)
        /\ co - ci > 6 * 3600
    THEN co - ci - 3600
    ELSE co - ci

\* C3: when check-in and check-out are both present and check-out is after
\* check-in, the worked seconds are the raw span minus 3600 exactly when
\* check-in <= 12:00, check-out >= 13:00 and the span exceeds 6 hours, and
\* the raw span otherwise; they are never negative; worked_hours (the
\* seconds in hours, to the nearest hundredth) is null in every other case.
C3_WorkedSeconds ==
    \A r \in RowSet :
        IF r.check_in # None /\ r.check_out # None
            /\ Val(r.check_out) > Val(r.check_in)
        THEN LET secs == C3_Seconds(Val(r.check_in), Val(r.check_out))
                 hundredths == Val(r.working_hours) \div 10
             IN  /\ r.working_hours # None
                 /\ secs >= 0
                 /\ Val(r.working_hours) >= 0
                 /\ Val(r.working_hours) % 10 = 0
                 /\ 36 * hundredths - secs <= 18
                 /\ secs - 36 * hundredths <= 18
        ELSE r.working_hours = None

\* a span of exactly 6 hours (08:00 to 14:00) keeps all of its 6.00 hours
C3_Witness ==
    \E r \in RowSet :
        /\ r.check_in = Some(At(FirstDate, T(8, 0, 0)))
        /\ r.check_out = Some(At(FirstDate, T(14, 0, 0)))
        /\ r.working_hours = Some(6000)

\* m is seconds / 60 rounded to the nearest integer, a half to the even one
C4_Rounded(m, seconds) ==
    /\ 60 * m - seconds <= 30
    /\ seconds - 60 * m <= 30
    /\ (60 * m - seconds = 30 \/ seconds - 60 * m = 30) => m % 2 = 0

\* the minutes the claim gives for a (possibly negative) number of seconds
C4_Minutes(seconds) ==
    Max0(CHOOSE m \in {seconds \div 60, seconds \div 60 + 1} :
            C4_Rounded(m, seconds))

\* C4: late_minutes is max(0, check-in minus 08:00 rounded to minutes), or 0
\* without a check-in; early_leave_minutes is max(0, 17:00 minus check-out
\* rounded to minutes), or 0 without a check-out; both are integers >= 0 and
\* both round a half minute by the same rule (to the even minute).
C4_LateAndEarly ==
    \A r \in RowSet :
        /\ r.late_mins \in Nat
        /\ r.early_leave_mins \in Nat
        /\ r.late_mins =
            IF r.check_in # None
            THEN C4_Minutes(Val(r.check_in) - At(r.date, T(8, 0, 0)))
            ELSE 0
        /\ r.early_leave_mins =
            IF r.check_out # None
            THEN C4_Minutes(At(r.date, T(17, 0, 0)) - Val(r.check_out))
            ELSE 0

\* half a minute late and half a minute early both round to 0
C4_Witness ==
    \E r \in RowSet :
        /\ r.check_in = Some(At(FirstDate, T(8, 0, 30)))
        /\ r.check_out = Some(At(FirstDate, T(16, 59, 30)))
        /\ r.late_mins = 0 /\ r.early_leave_mins = 0

----------------------------------------------------------------------------
(* Properties of get_daily_summary's output, checked under Spec.  A        *)
(* summary in flight was computed from the stores as they are: no handler  *)
(* runs until it is delivered.                                             *)

Request == response.request

\* the stored adjustments of an employee on a date
Adjustments(user_id, date) ==
    {m \in makeup_hours : m.user_id = user_id /\ m.date = date}

\* (user_id, date) lies in the window the request asks for
InWindow(user_id, date) ==
    Matches(Request.user_id, Request.start_date, Request.end_date,
            user_id, date)

\* a row that carries no punch
NoPunchRow(r) ==
    /\ r.check_in = None /\ r.check_out = None
    /\ r.working_hours = None
    /\ r.late_mins = 0 /\ r.early_leave_mins = 0
    /\ r.is_day_off

\* t is the sum h (thousandths of an hour) rounded to 2 decimals
RoundedTo2(t, h) == t % 10 = 0 /\ t - h <= 5 /\ h - t <= 5

\* C5: the rows get_daily_summary returns are strictly ascending by
\* (employee_id, date): no key appears twice.
C5_Ordered ==
    \A i, j \in 1 .. Len(Rows) :
        i < j =>
            \/ Rows[i].user_id < Rows[j].user_id
            \/ Rows[i].user_id = Rows[j].user_id /\ Rows[i].date < Rows[j].date

\* two employees, one of them with rows on several dates
C5_Witness ==
    /\ \E r1, r2 \in RowSet : r1.user_id # r2.user_id
    /\ \E r1, r2 \in RowSet : r1.user_id = r2.user_id /\ r1.date # r2.date

\* C6: with start_date and end_date both given, every employee in the
\* output has exactly one row for every date of [start_date, end_date], and
\* a date with neither a punch nor an adjustment of that employee is a
\* placeholder row (no check-in, no check-out, no worked hours, 0 late and
\* early minutes, day off); with a bound missing no placeholder row exists.
C6_DenseCalendar ==
    response.kind = "summary" =>
        /\ \A r \in RowSet :
                Punches(r.user_id, r.date) = {}
                    /\ Adjustments(r.user_id, r.date) = {}
                => /\ NoPunchRow(r)
                   /\ Request.start_date # None /\ Request.end_date # None
        /\ Request.start_date # None /\ Request.end_date # None =>
                \A r \in RowSet :
                    \A d \in Val(Request.start_date) .. Val(Request.end_date) :
                        Cardinality({i \in 1 .. Len(Rows) :
                            Rows[i].user_id = r.user_id /\ Rows[i].date = d}) = 1

\* an employee with a punch on the first date and placeholder rows on the
\* other dates of the range
C6_Witness ==
    /\ Request.start_date = Some(FirstDate)
    /\ Request.end_date = Some(FirstDate + NumDates - 1)
    /\ \E r \in RowSet : r.date = FirstDate /\ ~r.is_day_off
    /\ \E r \in RowSet :
        /\ r.date = FirstDate + NumDates - 1
        /\ Punches(r.user_id, r.date) = {}
        /\ Adjustments(r.user_id, r.date) = {}
        /\ NoPunchRow(r)

\* the rows built for the request in flight, before the activity filter
Built ==
    SummaryRows(attendance, makeup_hours, users, Request.user_id,
                Request.start_date, Request.end_date)

BuiltSet == {Built[i] : i \in 1 .. Len(Built)}

\* C7: an employee has rows in the output iff one of the rows built for it
\* in the window is not a day off or has make-up hours > 0; a retained
\* employee keeps all of its rows, and an employee without events and
\* adjustments has no row.
C7_Retention ==
    response.kind = "summary" =>
        \A u \in Users :
            LET out == {i \in 1 .. Len(Rows) : Rows[i].user_id = u}
                built == {i \in 1 .. Len(Built) : Built[i].user_id = u}
                active == \E i \in built :
                            ~Built[i].is_day_off \/ Built[i].makeup_hours > 0
            IN  /\ out # {} <=> active
                /\ out # {} =>
                    /\ Cardinality(out) = Cardinality(built)
                    /\ {Rows[i] : i \in out} = {Built[i] : i \in built}
                /\ (\A e \in attendance : e.user_id # u)
                    /\ (\A m \in makeup_hours : m.user_id # u)
                    => out = {}

\* one employee is dropped (its only row is a day off with an adjustment of
\* 0 hours) while another is kept together with a day-off row
C7_Witness ==
    /\ response.kind = "summary"
    /\ \E b \in BuiltSet : \A r \in RowSet : r.user_id # b.user_id
    /\ \E r1, r2 \in RowSet :
        r1.user_id = r2.user_id /\ r1.is_day_off /\ ~r2.is_day_off

\* the row the output holds for an adjustment without punches; total is the
\* relation between the row's total_hours and the adjustment's hours
C8_Row(m, total(_, _)) ==
    \E i \in 1 .. Len(Rows) :
        /\ Rows[i].user_id = m.user_id /\ Rows[i].date = m.date
        /\ Rows[i].check_in = None /\ Rows[i].check_out = None
        /\ Rows[i].is_day_off
        /\ Rows[i].makeup_hours = m.hours
        /\ Rows[i].total_hours # None
        /\ total(Val(Rows[i].total_hours), m.hours)
        /\ Rows[i].makeup_note = m.note

C8_Cases ==
    {m \in makeup_hours :
        /\ InWindow(m.user_id, m.date)
        /\ m.hours > 0
        /\ Punches(m.user_id, m.date) = {}}

\* C8 as stated: an adjustment of h > 0 hours inside the window, on a day
\* without punches, gives a row with no check-in and check-out, day off,
\* makeup_hours = h, total_hours = h and the adjustment's note.
C8_AsStated ==
    response.kind = "summary" =>
        \A m \in C8_Cases : C8_Row(m, LAMBDA t, h : t = h)

\* C8 amended: an adjustment of h > 0 hours inside the window, on a day
\* without punches, gives a row with no check-in and check-out, day off,
\* makeup_hours = h, total_hours = h rounded to 2 decimals, and the
\* adjustment's note.
C8_MakeupOnlyRow ==
    response.kind = "summary" =>
        \A m \in C8_Cases : C8_Row(m, RoundedTo2)

\* an adjustment of 4.0 hours with a note
C8_Witness ==
    /\ response.kind = "summary"
    /\ \E m \in C8_Cases :
        /\ m.hours = 4000 /\ m.note # None
        /\ C8_Row(m, LAMBDA t, h : t = 4000)

\* the make-up hours stored for a row's key, 0 when there are none
C9_Stored(r) ==
    LET ms == Adjustments(r.user_id, r.date)
    IN  IF ms = {} THEN 0 ELSE (CHOOSE m \in ms : TRUE).hours

C9_Sum(r) ==
    (IF r.working_hours = None THEN 0 ELSE Val(r.working_hours))
        + r.makeup_hours

\* C9 as stated: makeup_hours is the stored adjustment's hours or 0, and
\* total_hours is null exactly when worked_hours (0 when null) plus
\* makeup_hours is zero, and otherwise equals that sum.
C9_AsStated ==
    \A r \in RowSet :
        /\ r.makeup_hours = C9_Stored(r)
        /\ r.total_hours = IF C9_Sum(r) = 0 THEN None ELSE Some(C9_Sum(r))

\* C9 amended: makeup_hours is the stored adjustment's hours or 0, and
\* total_hours is null exactly when worked_hours (0 when null) plus
\* makeup_hours is zero, and otherwise equals that sum rounded to 2
\* decimals.
C9_TotalHours ==
    \A r \in RowSet :
        /\ r.makeup_hours = C9_Stored(r)
        /\ r.total_hours = None <=> C9_Sum(r) = 0
        /\ r.total_hours # None => RoundedTo2(Val(r.total_hours), C9_Sum(r))

\* a day with an explicit adjustment of 0 hours and no worked hours, beside
\* a worked day of the same employee
C9_Witness ==
    \E r \in RowSet :
        /\ Adjustments(r.user_id, r.date) # {}
        /\ r.makeup_hours = 0
        /\ r.working_hours = None
        /\ r.total_hours = None

\* C10: is_weekend holds exactly when weekday is 5 or 6; worked_on_weekend
\* is is_weekend and not is_day_off; weekend_note is "Worked on Saturday"
\* exactly when weekday = 5 and the row is not a day off, and null otherwise.
C10_Weekend ==
    \A r \in RowSet :
        /\ r.weekday = Weekday(r.date)
        /\ r.is_weekend <=> r.weekday \in {5, 6}
        /\ r.worked_on_weekend <=> (r.is_weekend /\ ~r.is_day_off)
        /\ r.weekend_note =
            IF r.weekday = 5 /\ ~r.is_day_off
            THEN Some("Worked on Saturday") ELSE None

\* a worked Sunday beside a Saturday that carries only make-up hours
C10_Witness ==
    /\ \E r \in RowSet :
        /\ r.weekday = 6 /\ ~r.is_day_off
        /\ r.worked_on_weekend /\ r.weekend_note = None
    /\ \E r \in RowSet :
        /\ r.weekday = 5 /\ r.is_day_off /\ r.makeup_hours > 0
        /\ r.weekend_note = None

----------------------------------------------------------------------------
(* Reads and writes of the stores, checked under Spec *)

\* C11: get_daily_summary is a pure read.  A step that answers a summary
\* request leaves the stored events, adjustments and employees as they
\* were, and the rows it returns are the rows a second call with the same
\* arguments returns on the stores it left behind.
C11_PureRead ==
    [][(response.kind = "idle" /\ response'.kind = "summary") =>
        /\ attendance' = attendance
        /\ makeup_hours' = makeup_hours
        /\ users' = users
        /\ response'.rows =
            get_daily_summary(attendance', makeup_hours', users',
                              response'.request.user_id,
                              response'.request.start_date,
                              response'.request.end_date)]_vars

\* a summary of several rows, placeholders among them, has been read from
\* stores that hold events and an adjustment
C11_Witness ==
    /\ response.kind = "summary"
    /\ Len(response.rows) >= 3
    /\ attendance # {}
    /\ makeup_hours # {}
    /\ \E i \in DOMAIN response.rows :
        /\ response.rows[i].is_day_off
        /\ Adjustments(response.rows[i].user_id, response.rows[i].date) = {}

----------------------------------------------------------------------------
(* The adjustments store, checked under SpecMakeup *)

\* the stored adjustments other than the one of (user_id, date)
OtherKeys(mk, user_id, date) ==
    {m \in mk : ~(m.user_id = user_id /\ m.date = date)}

\* C12: set_makeup_hours is a last-write-wins upsert.  After every accepted
\* POST /makeup the store holds exactly one adjustment for the request's
\* (employee, date), with the hours and the note of that request (a null
\* note replaces an earlier one), the adjustments of all other keys are
\* the ones stored before, and no key has two adjustments.
C12_LastWriteWins ==
    [][\A u \in Users, d \in Dates, h \in MakeupHoursPool, n \in NotePool :
        (/\ response'.kind = "makeup"
         /\ response'.status = 200
         /\ response'.request.user_id = Some(u)
         /\ response'.request.start_date = Some(d)
         /\ MakeupWithin(MaxKeys, Some(u), Some(h), Some(d), n)) =>
            /\ {m \in makeup_hours' : m.user_id = u /\ m.date = d} =
                {[user_id |-> u, date |-> d, hours |-> h, note |-> n]}
            /\ OtherKeys(makeup_hours', u, d) = OtherKeys(makeup_hours, u, d)
            /\ \A m1, m2 \in makeup_hours' :
                (m1.user_id = m2.user_id /\ m1.date = m2.date) => m1 = m2]_vars

\* a request without a note has been accepted and its adjustment is stored
\* with a null note, while the adjustment of another key keeps its note
C12_Witness ==
    /\ response.kind = "makeup"
    /\ response.status = 200
    /\ Len(response.rows) = 1
    /\ response.rows[1].makeup_note = None
    /\ response.rows[1].makeup_hours = 4000
    /\ Cardinality(makeup_hours) = MaxKeys
    /\ \E m \in makeup_hours :
        /\ <<m.user_id, m.date>> #
                <<response.rows[1].user_id, response.rows[1].date>>
        /\ m.note # None

----------------------------------------------------------------------------
(* The attendance store, checked under SpecInsert *)

\* C13: bulk_insert_attendance is idempotent.  Every insert adds exactly
\* the rows of its batch that were not stored and reports their number,
\* the store never holds two rows with the same (user_id, timestamp,
\* status), and inserting the same batch again reports 0 and leaves the
\* store as it is.
C13_Idempotent ==
    [][\A rows \in InsertBatches :
        (response'.kind = "sync" /\ SyncInsertUpTo(MaxRows, rows)) =>
            /\ attendance' \ attendance = rows \ attendance
            /\ attendance \subseteq attendance'
            /\ response'.inserted = Cardinality(rows \ attendance)
            /\ \A e1, e2 \in attendance' :
                (/\ e1.user_id = e2.user_id
                 /\ e1.timestamp = e2.timestamp
                 /\ e1.status = e2.status) => e1 = e2
            /\ bulk_insert_attendance(attendance', rows) =
                <<attendance', 0>>]_vars

\* a batch whose rows were all stored has been inserted again, into a store
\* that holds two rows differing in status only
C13_Witness ==
    /\ response.kind = "sync"
    /\ response.inserted = 0
    /\ \E e1, e2 \in attendance :
        /\ e1.user_id = e2.user_id
        /\ e1.timestamp = e2.timestamp
        /\ e1.status # e2.status

\* the request a POST /makeup step has answered was payload
Posted(payload) ==
    /\ response'.kind = "makeup"
    /\ response'.request.user_id = int(payload.user_id)
    /\ response'.request.start_date = payload.date
    /\ PostMakeup(MaxKeys, payload)

\* a JSON value that is no number: null or a string that spells none
NonNumeric(v) == v.type \in {"null", "text"}

\* a JSON value that is a number with a fractional part, or spells one
Fractional(v) ==
    v.type \in {"number", "numeric string"} /\ v.milli % 1000 # 0

\* C14 as stated: a POST /makeup whose hours are negative or non-numeric,
\* whose user_id is not an integer or whose date is missing is answered
\* with 400 and leaves the adjustments as they were, and no stored
\* adjustment has negative hours.
C14_AsStated ==
    [][\A payload \in MakeupPayloads :
        (/\ \/ NonNumeric(payload.hours)
            \/ payload.hours.milli < 0
            \/ NonNumeric(payload.user_id)
            \/ Fractional(payload.user_id)
            \/ payload.date = None
         /\ Posted(payload)) =>
            /\ response'.status = 400
            /\ makeup_hours' = makeup_hours
            /\ \A m \in makeup_hours' : m.hours >= 0]_vars

\* C14: a POST /makeup whose hours are negative, null or a string that
\* spells no number, whose user_id is null or a string that spells no
\* integer, or whose date is missing is answered with 400 and leaves the
\* adjustments as they were; a user_id that is a number with a fractional
\* part is truncated and the request is served for the truncated id; no
\* stored adjustment ever has negative hours.
C14_Validation ==
    [][\A payload \in MakeupPayloads : Posted(payload) =>
        /\ (\/ NonNumeric(payload.hours)
            \/ payload.hours.milli < 0
            \/ NonNumeric(payload.user_id)
            \/ (payload.user_id.type = "numeric string"
                    /\ Fractional(payload.user_id))
            \/ payload.date = None) =>
                /\ response'.status = 400
                /\ makeup_hours' = makeup_hours
        /\ (/\ payload.user_id.type = "number"
            /\ ~NonNumeric(payload.hours)
            /\ payload.hours.milli >= 0
            /\ payload.date # None) =>
                /\ response'.status = 200
                /\ \E m \in makeup_hours' :
                    /\ m.user_id * 1000 <= payload.user_id.milli
                    /\ payload.user_id.milli < (m.user_id + 1) * 1000
                    /\ m.date = Val(payload.date)
                    /\ m.hours = payload.hours.milli
        /\ \A m \in makeup_hours' : m.hours >= 0]_vars

\* a request that names an employee and a date has been answered with 400
\* for its hours, and the adjustment stored for that key is still there
C14_Witness ==
    /\ response.kind = "makeup"
    /\ response.status = 400
    /\ response.request.user_id # None
    /\ response.request.start_date # None
    /\ Adjustments(Val(response.request.user_id),
                   Val(response.request.start_date)) # {}
    /\ \A m \in makeup_hours : m.hours >= 0

----------------------------------------------------------------------------
(* Names and departments, checked under SpecDirectory *)

\* a row without its name and department
Anonymous(r) == [r EXCEPT !.name = None, !.department = None]

\* C15: an employee missing from the directory is tolerated.  Every row
\* of a summary carries the name and department stored for its employee,
\* or null for both when the directory has no such employee; the rows are
\* otherwise the ones an empty directory gives; and every punch and every
\* adjustment of more than 0 hours in the window has its row, whether its
\* employee is known or not.
C15_Directory ==
    response.kind = "summary" =>
        LET rows == response.rows
            bare == get_daily_summary(attendance, makeup_hours, {},
                                      Request.user_id, Request.start_date,
                                      Request.end_date)
        IN  /\ \A i \in DOMAIN rows :
                LET known == {u \in users : u.user_id = rows[i].user_id}
                IN  /\ known = {} =>
                        rows[i].name = None /\ rows[i].department = None
                    /\ \A u \in known :
                        /\ rows[i].name = u.name
                        /\ rows[i].department = u.department
            /\ Len(rows) = Len(bare)
            /\ \A i \in DOMAIN rows : Anonymous(rows[i]) = bare[i]
            /\ \A u \in Users, d \in Dates :
                (/\ InWindow(u, d)
                 /\ \/ Punches(u, d) # {}
                    \/ \E m \in Adjustments(u, d) : m.hours > 0) =>
                    \E i \in DOMAIN rows :
                        rows[i].user_id = u /\ rows[i].date = d

\* one summary with a punch row of an unknown employee and the adjustment
\* row of an employee stored with a name and a department
C15_Witness ==
    /\ response.kind = "summary"
    /\ \E i, j \in DOMAIN response.rows :
        /\ get_user(users, response.rows[i].user_id) = None
        /\ response.rows[i].check_in # None
        /\ response.rows[i].name = None
        /\ response.rows[j].name = Some("Bob")
        /\ response.rows[j].department = Some("Ops")
        /\ response.rows[j].makeup_hours = 4000

----------------------------------------------------------------------------
(* The session and the device, checked under SpecSession *)

\* C16: the session's device configuration is set only by a POST
\* /api/device/connect whose test_connection succeeded, and then to the
\* configuration of that request; a connect that fails (host missing, port
\* or password not a number, device unreachable) leaves the stored
\* configuration as it was; POST /api/device/disconnect removes it; no
\* other request changes it; GET /sync calls sync_attendance exactly when
\* a configuration is stored, and otherwise answers 412 without a call to
\* a device and without a change to the stores.
C16_Session ==
    [][/\ response'.kind = "connect" =>
            \A payload \in ConnectPayloads, o \in TestOutcomes :
                Connect(payload, o) =>
                    IF /\ payload.host # ""
                       /\ payload.port # None
                       /\ payload.password # None
                       /\ o.connect
                    THEN /\ response'.status = 200
                         /\ calls'[1] = Call("connect", TRUE)
                         /\ device_config' =
                            Some([host |-> payload.host,
                                  port |-> Val(payload.port),
                                  password |-> Val(payload.password)])
                    ELSE /\ response'.status # 200
                         /\ device_config' = device_config
       /\ response'.kind = "disconnect" => device_config' = None
       /\ response'.kind \notin {"connect", "disconnect"} =>
            device_config' = device_config
       /\ response'.kind = "sync" =>
            IF device_config = None
            THEN /\ response'.status = 412
                 /\ calls' = << >>
                 /\ UNCHANGED <<attendance, makeup_hours, users,
                                device_enabled>>
            ELSE /\ response'.status \in {200, 500}
                 /\ calls' # << >>
                 /\ calls'[1].call = "connect"]_vars

\* a connect to an unreachable device has been refused while the session
\* keeps the configuration stored by an earlier connect
C16_Witness ==
    /\ response.kind = "connect"
    /\ response.status = 400
    /\ calls = <<Call("connect", FALSE)>>
    /\ device_config # None

\* the sync in flight established its connection
Connected ==
    /\ response.kind = "sync"
    /\ calls # << >>
    /\ calls[1] = Call("connect", TRUE)

\* the positions of the calls of a name
Made(name) == {i \in DOMAIN calls : calls[i].call = name}

\* the positions of the calls that raised
Raised(names) == {i \in DOMAIN calls : calls[i].call \in names /\ ~calls[i].ok}

\* disable_device is called before users or attendance are read, and
\* enable_device is called afterwards with at most disconnect after it
DisableReadEnable ==
    /\ Made("disable_device") = {2}
    /\ \A i \in Made("get_users") \cup Made("get_attendance") : i > 2
    /\ \E i \in Made("enable_device") :
        /\ \A j \in DOMAIN calls : j > i => calls[j].call = "disconnect"
        /\ \A j \in DOMAIN calls : j < i => calls[j].call # "disconnect"

\* C17 as stated: once the connection is established, disable_device comes
\* before the reads, enable_device is called before the sync returns or
\* raises, the sync never leaves the device disabled, and any failure
\* after connecting is reported as SyncError.
C17_AsStated ==
    Connected =>
        /\ DisableReadEnable
        /\ device_enabled[Val(device_config).host]
        /\ Raised({"disable_device", "get_users", "get_attendance",
                   "bulk_insert_attendance", "enable_device",
                   "disconnect"}) # {} => response.status = 500

\* C17: once the connection is established, disable_device comes before
\* the reads and enable_device is called before the sync returns or
\* raises, on every path; the device is left enabled whenever that
\* enable_device returned; the sync is reported as SyncError exactly when
\* disable_device, get_attendance or the insert raised, so a failing
\* get_users, enable_device or disconnect is not reported.
C17_Sync ==
    Connected =>
        /\ DisableReadEnable
        /\ Call("enable_device", TRUE) \in {calls[i] : i \in DOMAIN calls} =>
                device_enabled[Val(device_config).host]
        /\ response.status = 500 <=>
                Raised({"disable_device", "get_attendance",
                        "bulk_insert_attendance"}) # {}
        /\ response.status \in {200, 500}

\* a sync has reported success although get_users and enable_device
\* raised, and the device is left disabled
C17_Witness ==
    /\ Connected
    /\ response.status = 200
    /\ Raised({"get_users"}) # {}
    /\ Raised({"enable_device"}) # {}
    /\ ~device_enabled[Val(device_config).host]

----------------------------------------------------------------------------
(* Days off, checked under SpecDayMakeup, and the order of check-in and    *)
(* check-out, checked under SpecDay                                        *)

\* C18: a day with a punch is never a day off.  In every row, check-in is
\* present exactly when some punch of the day is before 12:00 and
\* check-out exactly when some punch is at or after 12:00, so is_day_off
\* is true exactly for the rows without a punch (make-up-only and
\* placeholder rows); and every employee with a punch in the window has
\* the rows of its punches in the output.
C18_DayOff ==
    response.kind = "summary" =>
        /\ \A r \in RowSet :
            LET P == Punches(r.user_id, r.date)
            IN  /\ r.check_in # None <=>
                    \E ts \in P : TimeOf(ts) < T(12, 0, 0)
                /\ r.check_out # None <=>
                    \E ts \in P : TimeOf(ts) >= T(12, 0, 0)
                /\ P # {} => r.check_in # None \/ r.check_out # None
                /\ r.is_day_off <=> P = {}
        /\ \A u \in Users, d \in Dates :
            (InWindow(u, d) /\ Punches(u, d) # {}) =>
                \E r \in RowSet :
                    r.user_id = u /\ r.date = d /\ ~r.is_day_off

\* one summary with a day whose only punches are between 12:00 and 13:00,
\* a make-up-only day and a placeholder day
C18_Witness ==
    /\ response.kind = "summary"
    /\ \E r1, r2, r3 \in RowSet :
        /\ Punches(r1.user_id, r1.date) =
            {At(FirstDate, T(12, 2, 0)), At(FirstDate, T(12, 30, 0))}
        /\ r1.check_in = None
        /\ r1.check_out = Some(At(FirstDate, T(12, 30, 0)))
        /\ ~r1.is_day_off
        /\ r2.is_day_off /\ r2.makeup_hours = 4000
        /\ r3.is_day_off /\ r3.makeup_hours = 0
        /\ r1.user_id = r2.user_id /\ r2.user_id = r3.user_id

\* C19: in every row where check-in and check-out are both present, the
\* check-in is before 12:00 and the check-out at or after 12:00, so the
\* check-in is strictly before the check-out and they are two punches; the
\* candidates of lines 54-63 are never in the order the swap of lines
\* 65-66 tests for; and working_hours is present exactly when check-in and
\* check-out both are.
C19_InBeforeOut ==
    \A r \in RowSet :
        LET P == Punches(r.user_id, r.date)
        IN  /\ (r.check_in # None /\ r.check_out # None) =>
                /\ TimeOf(Val(r.check_in)) < T(12, 0, 0)
                /\ TimeOf(Val(r.check_out)) >= T(12, 0, 0)
                /\ Val(r.check_in) < Val(r.check_out)
            /\ P # {} =>
                LET ci == CheckInCandidate(P)
                    co == CheckOutCandidate(P)
                IN  /\ ~(ci # None /\ co # None /\ Val(ci) > Val(co))
                    /\ r.check_in = ci
                    /\ r.check_out = co
            /\ r.working_hours # None <=>
                    (r.check_in # None /\ r.check_out # None)

\* a day with the punches 11:59:59 and 12:00:00: check-in and check-out
\* one second apart, and a worked time of 0.0 hours
C19_Witness ==
    \E r \in RowSet :
        /\ Punches(r.user_id, r.date) =
            {At(FirstDate, T(11, 59, 59)), At(FirstDate, T(12, 0, 0))}
        /\ r.check_in = Some(At(FirstDate, T(11, 59, 59)))
        /\ r.check_out = Some(At(FirstDate, T(12, 0, 0)))
        /\ r.working_hours = Some(0)

====
